---- MODULE Spec2Model ----
(***************************************************************************)
(* Model of the decode side of NvPipe (src/decode.c): the session state of *)
(* struct nvp_decoder, the callbacks dec_sequence and dec_ode that the     *)
(* cuvid parser fires while a packet is parsed, dec_initialize, resize and *)
(* nvp_cuvid_decode with its two self-resubmissions, the encode and        *)
(* bitrate stubs, and nvp_cuvid_destroy, which ends the session.           *)
(*                                                                         *)
(* The cuvid/CUDA engine is the environment: every engine call may succeed *)
(* or fail, and every parse may or may not fire each callback.  A decode   *)
(* call is followed through its positions: "parse" (about to call          *)
(* cuvidParseVideoData), "map" (about to map the decoded picture),         *)
(* "returned" (the caller has the result) and back to "idle".  A failed    *)
(* assert() of a debug build ends the process ("aborted"); a build with    *)
(* NDEBUG runs on.  After nvp_cuvid_destroy the session is "closed".       *)
(***************************************************************************)
EXTENDS Integers, Sequences, FiniteSets

\* ---- bounds of the model -------------------------------------------------
\* widest coded picture, in macroblocks
MaxMbs == 2
\* decoder and buffer set-up calls of the engine (create, destroy, free,
\* alloc) that may fail while the session is in use; every other engine
\* call, and every call nvp_cuvid_destroy makes, may fail at any time
MaxFail == 1

\* ---- program constants ---------------------------------------------------
\* pic->PicWidthInMbs*16, pic->FrameHeightInMbs*16
MbSize == 16
\* dstwidth*dstheight*3
RgbBytesPerPixel == 3

VARIABLES
  nvp,      \* struct nvp_decoder
  cuvid,    \* engine side: decoder instances not destroyed, the creation info
            \* of the one nvp->decoder points to, and the parsers created
  cumem,    \* engine side: device allocations not freed, and the size of the
            \* one nvp->rgb points to
  ndebug,   \* the build: TRUE when assert() is compiled out
  pc,       \* position of the decode call in progress; "returned" when it is over
  arg,      \* arguments of the decode call in progress
  ret,      \* value and return site of the call that has just returned
  cur,      \* what the call in progress has done so far
  prev,     \* how the call before it ended
  fails     \* set-up calls of the engine that have failed so far

vars == <<nvp, cuvid, cumem, ndebug, pc, arg, ret, cur, prev, fails>>

CodedWidths == {MbSize * k : k \in 1..MaxMbs}
\* display areas a sequence header announces: the coded size, or a cropped one
DisplayHeights == {MbSize, MbSize \div 2}
\* the output widths a caller asks for: one and two macroblocks wide
RequestWidths == {MbSize, 2 * MbSize}
\* the calls a caller makes: a packet of one byte or more with a request for
\* one of the output sizes, and one call for each way an argument can be bad
GoodCalls == [ibuf_sz : {1}, width : RequestWidths, height : {MbSize}]
BadCalls == {[ibuf_sz |-> 0, width |-> MbSize, height |-> MbSize],
             [ibuf_sz |-> 1, width |-> 0, height |-> MbSize],
             [ibuf_sz |-> 1, width |-> MbSize, height |-> 0],
             [ibuf_sz |-> 1, width |-> MbSize, height |-> MbSize - 1]}

\* calloc(1, sizeof(struct nvp_decoder))
nvp_create_decoder ==
  [type |-> "DECODER", initialized |-> FALSE, decoder |-> FALSE, parser |-> FALSE,
   wi |-> 0, hi |-> 0, wdst |-> 0, hdst |-> 0, wsrc |-> 0, hsrc |-> 0,
   rgb |-> FALSE, empty |-> FALSE, reorg |-> FALSE]

NoCrt == [ulWidth |-> 0, ulHeight |-> 0, ulTargetWidth |-> 0, ulTargetHeight |-> 0]

\* the engine before any call: nothing created, nothing allocated
CuvidInit == [decoders |-> 0, crt |-> NoCrt, parsers |-> 0]
CumemInit == [live |-> 0, bytes |-> 0]

NoRet == [code |-> "none", site |-> "none"]
\* How the session stands to a call's arguments when the call is entered:
\* whether it is initialized, whether pendingEmptyFlag is set, whether it holds
\* a buffer, whether (wi,hi) is the coded size of the packet and whether
\* (wdst,hdst) is the requested size.
EntryOf(s, a) ==
  [initialized |-> s.initialized, empty |-> s.empty, rgb |-> s.rgb,
   sameInput |-> s.wi = a.ibuf.PicWidthInMbs * MbSize
                 /\ s.hi = a.ibuf.FrameHeightInMbs * MbSize,
   sameOutput |-> s.wdst = a.width /\ s.hdst = a.height]

\* What a call has done so far: packet submissions (nsub), resizes (nresize),
\* the submission the last resize followed (resizedAt), whether dec_ode
\* recorded a size (reported), decoders destroyed and created, buffers freed
\* and allocated, whether the creation of the parser, of a decoder or of a
\* buffer failed (setupFailed), the engine calls of the steady state in
\* order (pipe), the session at entry, and the assert() that failed.
NoCall == [nsub |-> 0, nresize |-> 0, resizedAt |-> 0, reported |-> FALSE,
           ndestroy |-> 0, ncreate |-> 0, setupFailed |-> FALSE,
           nfree |-> 0, nalloc |-> 0, pipe |-> << >>,
           entry |-> [initialized |-> FALSE, empty |-> FALSE, rgb |-> FALSE,
                      sameInput |-> FALSE, sameOutput |-> FALSE],
           asserted |-> "none"]
\* how the call before ended ("none" before the first call): "success", "no picture"
\* (it submitted its packet and the picture size was unknown after every
\* submission), "no picture, flag left by a parse error" (the same, where the
\* call found nvp->empty clear, set it, and then failed to parse) or "other"
PrevOf(r, c, s) ==
  IF r.code = "NVPIPE_SUCCESS" THEN "success"
  ELSE IF c.nsub > 0 /\ (s.wsrc = 0 \/ s.hsrc = 0)
  THEN IF r.site = "parsing video data failed" /\ ~c.entry.empty /\ s.empty
       THEN "no picture, flag left by a parse error"
       ELSE "no picture"
  ELSE "other"

\* ---- the machine a call runs on ------------------------------------------
\* m.s is struct nvp_decoder, m.dec and m.mem the engine side, m.asserted the
\* assert() that failed (a debug build stops there), m.used the set-up
\* failures met, m.ev the engine operations carried out, in order.
Machine(s, dec, mem) ==
  [s |-> s, dec |-> dec, mem |-> mem, asserted |-> "none", used |-> 0, ev |-> << >>]

Outcomes == [destroy : BOOLEAN, create : BOOLEAN, free : BOOLEAN, alloc : BOOLEAN]

\* Fault: the new buffer is sized by the target size the session still
\* records (wdst*hdst*3) instead of the one asked for.
dec_initialize_buffer_stale_size(m, dstwidth, dstheight, o) ==
  IF dstwidth # m.s.wdst \/ dstheight # m.s.hdst
  THEN IF m.s.rgb /\ ~o.free
       THEN [m |-> [m EXCEPT !.used = @ + 1], ok |-> FALSE]
       ELSE LET m1 == IF m.s.rgb
                      THEN [m EXCEPT !.s.rgb = FALSE,
                                     !.mem = [live |-> @.live - 1, bytes |-> 0],
                                     !.ev = Append(@, "free")]
                      ELSE m
                nb_rgb == m.s.wdst * m.s.hdst * RgbBytesPerPixel
            IN IF ~o.alloc
               THEN [m |-> [m1 EXCEPT !.s.rgb = FALSE, !.used = @ + 1,
                                      !.ev = Append(@, "alloc failed")],
                     ok |-> FALSE]
               ELSE [m |-> [m1 EXCEPT !.s.rgb = TRUE,
                                      !.s.wdst = dstwidth, !.s.hdst = dstheight,
                                      !.s.initialized = TRUE,
                                      !.mem = [live |-> @.live + 1, bytes |-> nb_rgb],
                                      !.ev = Append(@, "alloc")],
                     ok |-> TRUE]
  ELSE [m |-> [m EXCEPT !.s.initialized = TRUE], ok |-> TRUE]

\* lines 123-146 of dec_initialize, after the decoder was created
dec_initialize_buffer(m, dstwidth, dstheight, o) ==
  IF dstwidth # m.s.wdst \/ dstheight # m.s.hdst
  THEN IF m.s.rgb /\ ~o.free
       THEN [m |-> [m EXCEPT !.used = @ + 1], ok |-> FALSE]
       ELSE LET m1 == IF m.s.rgb
                      THEN [m EXCEPT !.s.rgb = FALSE,
                                     !.mem = [live |-> @.live - 1, bytes |-> 0],
                                     !.ev = Append(@, "free")]
                      ELSE m
                nb_rgb == dstwidth * dstheight * RgbBytesPerPixel
            IN IF ~o.alloc
               THEN [m |-> [m1 EXCEPT !.s.rgb = FALSE, !.used = @ + 1,
                                      !.ev = Append(@, "alloc failed")],
                     ok |-> FALSE]
               ELSE [m |-> [m1 EXCEPT !.s.rgb = TRUE,
                                      !.s.wdst = dstwidth, !.s.hdst = dstheight,
                                      !.s.initialized = TRUE,
                                      !.mem = [live |-> @.live + 1, bytes |-> nb_rgb],
                                      !.ev = Append(@, "alloc")],
                     ok |-> TRUE]
  ELSE [m |-> [m EXCEPT !.s.initialized = TRUE], ok |-> TRUE]

\* Initialize or reinitialize the decoder.  The three assert()s come first; the
\* input size is recorded before cuvidCreateDecoder is called.
dec_initialize(m, iwidth, iheight, dstwidth, dstheight, o) ==
  IF ~ndebug /\ ~(iwidth > 0 /\ iheight > 0 /\ dstwidth > 0 /\ dstheight > 0)
  THEN [m |-> [m EXCEPT !.asserted = "dims > 0"], ok |-> FALSE]
  ELSE IF ~ndebug /\ m.s.decoder
  THEN [m |-> [m EXCEPT !.asserted = "nvp->decoder == NULL"], ok |-> FALSE]
  ELSE LET m1 == [m EXCEPT !.s.wi = iwidth, !.s.hi = iheight]
       IN IF ~o.create
          THEN [m |-> [m1 EXCEPT !.used = @ + 1, !.ev = Append(@, "create failed")],
                ok |-> FALSE]
          ELSE dec_initialize_buffer(
                 [m1 EXCEPT !.s.decoder = TRUE,
                            !.dec.decoders = @ + 1,
                            !.dec.crt = [ulWidth |-> iwidth, ulHeight |-> iheight,
                                         ulTargetWidth |-> dstwidth,
                                         ulTargetHeight |-> dstheight],
                            !.ev = Append(@, "create")],
                 dstwidth, dstheight, o)

\* Fault: the resize takes the parser down with the decoder.
resize_with_parser(m, width, height, dstwidth, dstheight, o) ==
  LET m1 == IF m.s.decoder
            THEN IF o.destroy
                 THEN [m EXCEPT !.dec.decoders = @ - 1, !.ev = Append(@, "destroy")]
                 ELSE [m EXCEPT !.used = @ + 1]
            ELSE m
      m2 == [m1 EXCEPT !.s.decoder = FALSE, !.dec.crt = NoCrt, !.s.parser = FALSE]
  IN dec_initialize(m2, width, height, dstwidth, dstheight, o).m

\* Resizes an existing decoder: the result of dec_initialize is dropped.
resize(m, width, height, dstwidth, dstheight, o) ==
  LET m1 == IF m.s.decoder
            THEN IF o.destroy
                 THEN [m EXCEPT !.dec.decoders = @ - 1, !.ev = Append(@, "destroy")]
                 ELSE [m EXCEPT !.used = @ + 1]
            ELSE m
      m2 == [m1 EXCEPT !.s.decoder = FALSE, !.dec.crt = NoCrt]
  IN dec_initialize(m2, width, height, dstwidth, dstheight, o).m

\* ---- the parser's callbacks ----------------------------------------------
\* A packet (ibuf) is one access unit; what the session gets to see of it is
\* the coded size of its picture, in macroblocks (CUVIDPICPARAMS).
Packets == [PicWidthInMbs : 1..MaxMbs, FrameHeightInMbs : {1}]
NoPacket == [PicWidthInMbs |-> 0, FrameHeightInMbs |-> 0]
\* CUVIDEOFORMAT the parser hands to dec_sequence for a packet: the display
\* area is as wide as the coded picture and display_bottom high (the coded
\* height, or a cropped one); the luma bit depth is 8 or 10.
Formats(pkt) == [w : {pkt.PicWidthInMbs * MbSize}, h : DisplayHeights,
                 bit_depth_luma_minus8 : {0, 2}]
NoFormat == [w |-> 0, h |-> 0, bit_depth_luma_minus8 |-> 0]
\* the format of an uncropped 8-bit stream
FormatOf(pkt) == [w |-> pkt.PicWidthInMbs * MbSize, h |-> pkt.FrameHeightInMbs * MbSize,
                  bit_depth_luma_minus8 |-> 0]

\* Fault: every sequence header initializes the decoder, not only the first.
dec_sequence_every_time(m, fmt, o) ==
  IF fmt.bit_depth_luma_minus8 # 0
  THEN [m |-> m, ok |-> FALSE]
  ELSE dec_initialize(m, fmt.w, fmt.h, fmt.w, fmt.h, o)

\* on-sequence-detected: only the first sequence initializes the decoder,
\* with the display area as input and as target size.
dec_sequence(m, fmt, o) ==
  IF fmt.bit_depth_luma_minus8 # 0
  THEN [m |-> m, ok |-> FALSE]
  ELSE IF ~m.s.initialized
  THEN dec_initialize(m, fmt.w, fmt.h, fmt.w, fmt.h, o)
  ELSE [m |-> m, ok |-> TRUE]

\* cuvidDecodePicture on a NULL decoder fails; on a live one the engine decides.
cuvidDecodePicture(m, engineOk) == m.s.decoder /\ engineOk

\* on-picture-decoded: the coded size is recorded only after a successful decode.
dec_ode(m, pic, engineOk) ==
  IF ~cuvidDecodePicture(m, engineOk)
  THEN [m |-> m, ok |-> FALSE]
  ELSE [m |-> [m EXCEPT !.s.wsrc = pic.PicWidthInMbs * MbSize,
                        !.s.hsrc = pic.FrameHeightInMbs * MbSize],
        ok |-> TRUE]

\* cuvidCreateVideoParser, on the first call only
initialize_parser(s, engineOk) ==
  IF engineOk
  THEN [s |-> [s EXCEPT !.parser = TRUE], errc |-> "NVPIPE_SUCCESS"]
  ELSE [s |-> s, errc |-> "NVPIPE_EDECODE"]

\* Fault: an odd height passes the argument checks.
validate_odd_height(ibuf_sz, width, height) ==
  IF ibuf_sz = 0 THEN [code |-> "NVPIPE_EINVAL", site |-> "ibuf_sz == 0"]
  ELSE IF width = 0 \/ height = 0
  THEN [code |-> "NVPIPE_EINVAL", site |-> "invalid width or height"]
  ELSE [code |-> "ok", site |-> "ok"]

\* ---- nvp_cuvid_decode ----------------------------------------------------
\* lines 278-289: the argument checks (impl.type is DECODER for every session
\* nvp_create_decoder makes).  "ok" when the call goes on.
validate(ibuf_sz, width, height) ==
  IF ibuf_sz = 0 THEN [code |-> "NVPIPE_EINVAL", site |-> "ibuf_sz == 0"]
  ELSE IF width = 0 \/ height = 0 \/ height % 2 = 1
  THEN [code |-> "NVPIPE_EINVAL", site |-> "invalid width or height"]
  ELSE [code |-> "ok", site |-> "ok"]

\* lines 328-329: does the call have to resize before it can map?
needs_resize(s, width, height) ==
  s.wsrc # s.wi \/ s.hsrc # s.hi \/ s.wdst # width \/ s.hdst # height

\* line 309: no picture size is known
size_unknown(s) == s.wsrc = 0 \/ s.hsrc = 0

Count(ev, e) == Cardinality({i \in DOMAIN ev : ev[i] = e})
\* cuvidCreateDecoder or cuMemAlloc failed among the engine calls ev
SetupFailedIn(ev) == Count(ev, "create failed") + Count(ev, "alloc failed") > 0
Falses(o) == Cardinality({f \in DOMAIN o : ~o[f]})
AllOk == [destroy |-> TRUE, create |-> TRUE, free |-> TRUE, alloc |-> TRUE]
\* engine outcomes that fit the failures still allowed
OutsUpTo == [n \in 0..4 |-> {o \in Outcomes : Falses(o) <= n}]
Outs(n) == OutsUpTo[IF n > 4 THEN 4 ELSE n]

Ret(code, site) == [code |-> code, site |-> site]

\* Fault: the resubmission is not guarded by nvp->empty.
resubmit_unknown_size_unguarded(m) ==
  [m |-> [m EXCEPT !.s.empty = TRUE], next |-> "parse", resized |-> FALSE,
   ret |-> Ret("pending", "pending")]

\* Fault: the call gives up on the first submission that leaves the size
\* unknown, without the resubmission.
resubmit_unknown_size_never(m) ==
  [m |-> [m EXCEPT !.s.empty = TRUE], next |-> "return", resized |-> FALSE,
   ret |-> Ret("NVPIPE_EINVAL", "Input is just stream metadata!")]

\* lines 309-319: no picture size is known after the parse.  The packet is
\* resubmitted once; nvp->empty stops the second resubmission.
resubmit_unknown_size(m) ==
  IF m.s.empty
  THEN [m |-> m, next |-> "return", resized |-> FALSE,
        ret |-> Ret("NVPIPE_EINVAL", "Input is just stream metadata!")]
  ELSE [m |-> [m EXCEPT !.s.empty = TRUE], next |-> "parse", resized |-> FALSE,
        ret |-> Ret("pending", "pending")]

\* lines 304-332: what the call does once cuvidParseVideoData has returned.
\* next is "return" (with ret), "parse" (the call calls itself: resubmission)
\* or "map"; a failed assert() inside resize shows in m.asserted.
after_parse(m, parseOk, width, height, o) ==
  IF ~parseOk
  THEN [m |-> m, next |-> "return", resized |-> FALSE,
        ret |-> Ret("NVPIPE_EDECODE", "parsing video data failed")]
  ELSE IF size_unknown(m.s)
  THEN resubmit_unknown_size(m)
  ELSE LET m1 == [m EXCEPT !.s.empty = FALSE]
       IN IF needs_resize(m1.s, width, height)
          THEN [m |-> resize(m1, m1.s.wsrc, m1.s.hsrc, width, height, o),
                next |-> "parse", resized |-> TRUE, ret |-> Ret("pending", "pending")]
          ELSE [m |-> m1, next |-> "map", resized |-> FALSE,
                ret |-> Ret("pending", "pending")]

MapOutcomes == [map : BOOLEAN, submit : BOOLEAN, hcopy : BOOLEAN,
                synch : BOOLEAN, unmap : BOOLEAN]

\* Every engine call of the steady state is recorded with its outcome.
Did(op, ok) == IF ok THEN op ELSE op \o " failed"

\* Fault: a failed unmap takes the place of the result.
unmap_and_return_unmap_error(m, errcode, r) ==
  [m |-> [m EXCEPT !.ev = Append(@, Did("unmap", r.unmap))],
   ret |-> IF r.unmap THEN errcode ELSE Ret("CUresult", "cuvidUnmapVideoFrame")]

\* lines 379-384, the label fail: the picture is unmapped whatever happened,
\* and errcode is returned whether or not the unmap worked.
unmap_and_return(m, errcode, r) ==
  [m |-> [m EXCEPT !.ev = Append(@, Did("unmap", r.unmap))],
   ret |-> errcode]

\* Fault: the queue is not synchronized after the copy was issued.
convert_copy_no_sync(m, r) ==
  LET m1 == [m EXCEPT !.s.reorg = TRUE, !.ev = Append(@, Did("convert", r.submit))]
  IN IF ~r.submit
     THEN unmap_and_return(m1, Ret("CUresult", "submit"), r)
     ELSE LET m2 == [m1 EXCEPT !.ev = Append(@, Did("copy", r.hcopy))]
          IN IF ~r.hcopy
             THEN unmap_and_return(m2, Ret("CUresult", "cuMemcpyDtoHAsync"), r)
             ELSE unmap_and_return(m2, Ret("NVPIPE_SUCCESS", "return errcode"), r)

\* lines 352-377: convert into nvp->rgb, copy wdst*hdst*3 bytes out, synchronize
convert_copy_sync(m, r) ==
  LET m1 == [m EXCEPT !.s.reorg = TRUE, !.ev = Append(@, Did("convert", r.submit))]
  IN IF ~r.submit
     THEN unmap_and_return(m1, Ret("CUresult", "submit"), r)
     ELSE LET m2 == [m1 EXCEPT !.ev = Append(@, Did("copy", r.hcopy))]
          IN IF ~r.hcopy
             THEN unmap_and_return(m2, Ret("CUresult", "cuMemcpyDtoHAsync"), r)
             ELSE LET m3 == [m2 EXCEPT !.ev = Append(@, Did("sync", r.synch))]
                  IN IF ~r.synch
                     THEN unmap_and_return(m3, Ret("CUresult", "sync"), r)
                     ELSE unmap_and_return(m3, Ret("NVPIPE_SUCCESS", "return errcode"), r)

\* lines 334-385: the steady state.  cuvidMapVideoFrame on a NULL decoder
\* (reachable only with assert() compiled out) fails.
map_convert_copy(m, r) ==
  IF ~ndebug /\ ~m.s.decoder
  THEN [m |-> [m EXCEPT !.asserted = "nvp->decoder"], ret |-> Ret("pending", "pending")]
  ELSE IF ~(m.s.decoder /\ r.map)
  THEN [m |-> [m EXCEPT !.ev = Append(@, "map failed")],
        ret |-> Ret("CUresult", "cuvidMapVideoFrame")]
  ELSE convert_copy_sync([m EXCEPT !.ev = Append(@, "map")], r)

\* ---- nvp_cuvid_encode, nvp_cuvid_bitrate ---------------------------------
\* Fault: the stub reports success.
nvp_cuvid_encode_success(s, ibuf_sz, width, height) ==
  [s |-> s, asserted |-> IF ndebug THEN "none" ELSE "false",
   ret |-> Ret("NVPIPE_SUCCESS", "nvp_cuvid_encode")]

\* The decoder cannot encode: no argument is read, assert(false) stops a debug
\* build, and NVPIPE_EINVAL is returned otherwise.
nvp_cuvid_encode(s, ibuf_sz, width, height) ==
  [s |-> s, asserted |-> IF ndebug THEN "none" ELSE "false",
   ret |-> Ret("NVPIPE_EINVAL", "nvp_cuvid_encode")]

\* The same for the bitrate.
nvp_cuvid_bitrate(s, br) ==
  [s |-> s, asserted |-> IF ndebug THEN "none" ELSE "false",
   ret |-> Ret("NVPIPE_EINVAL", "nvp_cuvid_bitrate")]

\* ---- nvp_cuvid_destroy ---------------------------------------------------
\* what is left of the session after free(nvp): it holds nothing
Freed == [nvp_create_decoder EXCEPT !.type = "freed"]
\* the engine calls of nvp_cuvid_destroy that may fail
DestroyOutcomes == [destroy : BOOLEAN, destroy_parser : BOOLEAN, free : BOOLEAN]

\* Releases the decoder and the parser if the session holds them, calls
\* cuMemFree(nvp->rgb) whether or not there is a buffer, destroys the
\* converter if there is one, and frees the session.  A failed release is
\* logged and what was to be released stays with the engine.
nvp_cuvid_destroy(m, o) ==
  IF ~ndebug /\ m.s.type # "DECODER"
  THEN [m EXCEPT !.asserted = "nvp->impl.type == DECODER"]
  ELSE LET m1 == IF m.s.decoder
                 THEN [m EXCEPT !.dec.decoders = IF o.destroy THEN @ - 1 ELSE @,
                                !.dec.crt = IF o.destroy THEN NoCrt ELSE @,
                                !.ev = Append(@, Did("destroy", o.destroy))]
                 ELSE m
           m2 == IF m1.s.parser
                 THEN [m1 EXCEPT !.dec.parsers = IF o.destroy_parser THEN @ - 1 ELSE @,
                                 !.ev = Append(@, Did("destroy_parser", o.destroy_parser))]
                 ELSE m1
           m3 == [m2 EXCEPT !.mem = IF m2.s.rgb /\ o.free
                                    THEN [live |-> @.live - 1, bytes |-> 0] ELSE @,
                            !.ev = Append(@, Did("free", o.free))]
           m4 == IF m3.s.reorg
                 THEN [m3 EXCEPT !.s.reorg = FALSE, !.ev = Append(@, "reorg_destroy")]
                 ELSE m3
       IN [m4 EXCEPT !.s = Freed]

\* ---- the state machine ---------------------------------------------------
Pending == Ret("pending", "pending")
NoArg == [ibuf_sz |-> 0, width |-> 0, height |-> 0, ibuf |-> NoPacket]

Init ==
  /\ nvp = nvp_create_decoder
  /\ cuvid = CuvidInit
  /\ cumem = CumemInit
  /\ ndebug \in BOOLEAN
  /\ pc = "idle"
  /\ arg = NoArg
  /\ ret = NoRet
  /\ cur = NoCall
  /\ prev = "none"
  /\ fails = 0

\* the machine's state becomes the program's
Commit(m) ==
  /\ nvp' = m.s
  /\ cuvid' = m.dec
  /\ cumem' = m.mem
  /\ fails' = fails + m.used

\* A caller calls decode: lines 277-296.  The call returns at once on a bad
\* argument or when the parser cannot be created, and goes on to parse otherwise.
DecodeCall ==
  /\ pc = "idle"
  /\ \E call \in GoodCalls \cup BadCalls :
     \E ibuf \in IF call \in GoodCalls THEN Packets ELSE {NoPacket} :
     \E parserOk \in IF call \in GoodCalls /\ ~nvp.parser THEN BOOLEAN ELSE {TRUE} :
       LET v == validate(call.ibuf_sz, call.width, call.height)
           ip == initialize_parser(nvp, parserOk)
       IN /\ arg' = [ibuf_sz |-> call.ibuf_sz, width |-> call.width,
                     height |-> call.height, ibuf |-> ibuf]
          /\ cur' = [NoCall EXCEPT !.entry = EntryOf(nvp, arg'),
                                    !.setupFailed = v.code = "ok" /\ ~nvp.parser
                                                    /\ ip.errc # "NVPIPE_SUCCESS"]
          /\ UNCHANGED <<cumem, ndebug, fails, prev>>
          /\ IF v.code # "ok"
             THEN ret' = v /\ pc' = "returned" /\ UNCHANGED <<nvp, cuvid>>
             ELSE IF nvp.parser
             THEN ret' = Pending /\ pc' = "parse" /\ UNCHANGED <<nvp, cuvid>>
             ELSE IF ip.errc # "NVPIPE_SUCCESS"
             THEN ret' = Ret(ip.errc, "initialize_parser") /\ pc' = "returned"
                  /\ UNCHANGED <<nvp, cuvid>>
             ELSE /\ ret' = Pending /\ pc' = "parse" /\ nvp' = ip.s
                  /\ cuvid' = [cuvid EXCEPT !.parsers = @ + 1]

\* cuvidParseVideoData and what follows it, lines 298-332: the parser fires
\* dec_sequence and dec_ode for the packet (each at most once, in that order,
\* or not yet: the parser may hold the packet back) and returns.  The format
\* and the outcome of the set-up calls matter to dec_sequence on a session not
\* yet initialized only, so they are drawn for that case only.  Then the
\* call returns an error, resubmits, resizes and resubmits, or goes on to map
\* the picture.
Parse ==
  /\ pc = "parse"
  /\ \E seq \in BOOLEAN :
     \E fmt \in IF ~seq THEN {NoFormat}
                 ELSE IF nvp.initialized THEN {FormatOf(arg.ibuf)}
                 ELSE Formats(arg.ibuf) :
     \E o1 \in IF seq /\ ~nvp.initialized THEN Outs(MaxFail - fails) ELSE {AllOk} :
     LET m0 == Machine(nvp, cuvid, cumem)
         a == IF seq THEN dec_sequence(m0, fmt, o1).m ELSE m0
     IN
     /\ a.used = Falses(o1)
     /\ IF a.asserted # "none"
        THEN /\ Commit(a)
             /\ pc' = "aborted"
             /\ cur' = [cur EXCEPT !.nsub = @ + 1, !.asserted = a.asserted,
                                   !.setupFailed = @ \/ SetupFailedIn(a.ev)]
             /\ UNCHANGED <<ndebug, arg, ret, prev>>
        ELSE
        \E pic \in BOOLEAN :
        \E decOk \in IF pic /\ a.s.decoder THEN BOOLEAN ELSE {TRUE} :
        LET d == IF pic THEN dec_ode(a, arg.ibuf, decOk)
                 ELSE [m |-> a, ok |-> FALSE]
            b == d.m
        IN
        \E parseOk \in BOOLEAN :
        \E o2 \in IF after_parse(b, parseOk, arg.width, arg.height, AllOk).resized
                   THEN Outs(MaxFail - fails - b.used) ELSE {AllOk} :
           LET c == after_parse(b, parseOk, arg.width, arg.height, o2)
           IN
           /\ c.m.used = b.used + Falses(o2)
           /\ Commit(c.m)
           /\ cur' = [cur EXCEPT !.nsub = @ + 1,
                                 !.nresize = @ + (IF c.resized THEN 1 ELSE 0),
                                 !.resizedAt = IF c.resized THEN cur.nsub + 1 ELSE @,
                                 !.reported = @ \/ d.ok,
                                 !.ndestroy = @ + Count(c.m.ev, "destroy"),
                                 !.ncreate = @ + Count(c.m.ev, "create"),
                                 !.setupFailed = @ \/ SetupFailedIn(c.m.ev),
                                 !.nfree = @ + Count(c.m.ev, "free"),
                                 !.nalloc = @ + Count(c.m.ev, "alloc"),
                                 !.asserted = c.m.asserted]
           /\ pc' = IF c.m.asserted # "none" THEN "aborted"
                    ELSE IF c.next = "return" THEN "returned" ELSE c.next
           /\ ret' = c.ret
           /\ UNCHANGED <<ndebug, arg, prev>>

\* the steady state, lines 334-385: map, convert, copy, synchronize, unmap
Map ==
  /\ pc = "map"
  /\ \E r \in MapOutcomes :
     LET c == map_convert_copy(Machine(nvp, cuvid, cumem), r)
     IN /\ Commit(c.m)
        /\ cur' = [cur EXCEPT !.pipe = c.m.ev, !.asserted = c.m.asserted]
        /\ pc' = IF c.m.asserted # "none" THEN "aborted" ELSE "returned"
        /\ ret' = c.ret
        /\ UNCHANGED <<ndebug, arg, prev>>

\* The caller has the result: the session is ready for the next call, and of
\* the call just made only how it ended is remembered.
Returned ==
  /\ pc = "returned"
  /\ pc' = "idle"
  /\ prev' = PrevOf(ret, cur, nvp)
  /\ arg' = NoArg
  /\ ret' = NoRet
  /\ cur' = NoCall
  /\ UNCHANGED <<nvp, cuvid, cumem, ndebug, fails>>

\* A call of encode or of the bitrate setter on the decode session, between
\* two decode calls.  In a debug build the call does not return; ret then
\* names the call that was made.
Misc(e) ==
  /\ pc = "idle"
  /\ nvp' = e.s
  /\ IF e.asserted # "none"
     THEN /\ pc' = "aborted"
          /\ ret' = Ret("none", e.ret.site)
          /\ cur' = [cur EXCEPT !.asserted = e.asserted]
     ELSE /\ pc' = "idle"
          /\ ret' = e.ret
          /\ UNCHANGED cur
  /\ UNCHANGED <<cuvid, cumem, ndebug, arg, prev, fails>>

Encode ==
  \E ibuf_sz \in {0, 1} : \E width \in {0} \cup CodedWidths : \E height \in {0, MbSize} :
    Misc(nvp_cuvid_encode(nvp, ibuf_sz, width, height))

Bitrate == \E br \in {0, 1} : Misc(nvp_cuvid_bitrate(nvp, br))

\* The caller closes the session between two calls: impl.destroy.  cur.pipe
\* then holds the engine calls the close made, in order.
Destroy ==
  /\ pc = "idle"
  /\ \E o \in DestroyOutcomes :
     LET c == nvp_cuvid_destroy(Machine(nvp, cuvid, cumem), o)
     IN /\ nvp.decoder \/ o.destroy
        /\ nvp.parser \/ o.destroy_parser
        /\ nvp' = c.s
        /\ cuvid' = c.dec
        /\ cumem' = c.mem
        /\ cur' = [cur EXCEPT !.pipe = c.ev, !.asserted = c.asserted]
        /\ pc' = IF c.asserted # "none" THEN "aborted" ELSE "closed"
        /\ ret' = NoRet
        /\ UNCHANGED <<ndebug, arg, prev, fails>>

Next == DecodeCall \/ Parse \/ Map \/ Returned \/ Encode \/ Bitrate \/ Destroy

Spec == Init /\ [][Next]_vars

\* ---- the claims ----------------------------------------------------------
Returning == pc = "returned"
Succeeded == pc = "returned" /\ ret.code = "NVPIPE_SUCCESS"
CodedW == arg.ibuf.PicWidthInMbs * MbSize
CodedH == arg.ibuf.FrameHeightInMbs * MbSize

\* C1: a decode call submits its packet at most three times (the first
\* submission, one unknown-size resubmission, one resize resubmission),
\* whatever the engine's create, destroy, alloc and free calls return.
C1_AtMostThreeSubmissions == cur.nsub <= 3

\* the call has come to the steady state: it is about to map, or it returned
\* from the code after the map
MapSites == {"cuvidMapVideoFrame", "submit", "cuMemcpyDtoHAsync", "sync", "return errcode"}
ReachedMap == pc = "map" \/ (pc = "returned" /\ ret.site \in MapSites)
\* the call was entered on an initialized session and its packet reported a
\* coded size that is not the size the decoder was created with
ReportsNewSize == cur.entry.initialized /\ cur.reported /\ ~cur.entry.sameInput

\* C2: such a call does exactly one resize (destroy the decoder, recreate it)
\* and exactly one resubmission after it before it maps, and then (wi,hi) is
\* the coded size the packet reported.
C2_ExactlyOneResize ==
  (ReachedMap /\ ReportsNewSize)
    => /\ cur.nresize = 1
       /\ cur.nsub = cur.resizedAt + 1
       /\ nvp.wi = CodedW /\ nvp.hi = CodedH

\* the call is entered on an initialized session, after a call that succeeded
\* or that saw no picture, with a packet of the coded size and a request of
\* the target size the decoder was created with
SteadyCall ==
  /\ cur.entry.initialized /\ prev # "other"
  /\ cur.entry.sameInput /\ cur.entry.sameOutput

\* C3: in a steady-state stream (every packet of the same coded size, every
\* call with the same valid request) a call after the first never enters the
\* resize path: the decoder is neither destroyed nor created, the buffer is
\* neither freed nor allocated, and after a successful call the packet is
\* submitted once.
C3_SteadyStateNeverResizes ==
  SteadyCall
    => /\ cur.nresize = 0
       /\ cur.ndestroy = 0 /\ cur.ncreate = 0
       /\ cur.nfree = 0 /\ cur.nalloc = 0
       /\ prev = "success" => cur.nsub <= 1

C3_Witness ==
  SteadyCall /\ prev = "success" /\ Succeeded /\ cur.reported /\ cur.nsub = 1

\* the call before succeeded, and this call brings a packet of the coded size
\* the decoder was created with and a request for another target size
RequestOnlyChange == prev = "success" /\ cur.entry.sameInput /\ ~cur.entry.sameOutput

\* C4: when a call differs from the one before only in the requested size, it
\* frees the buffer the session holds and allocates one of
\* requestedWidth*requestedHeight*3 bytes, which is then the only one live;
\* (wdst,hdst) becomes the request and (wi,hi) is what it was.
C4_RequestChangeReallocates ==
  (RequestOnlyChange /\ ReachedMap)
    => /\ cur.nfree = (IF cur.entry.rgb THEN 1 ELSE 0) /\ cur.nalloc = 1
       /\ nvp.rgb /\ cumem.live = 1
       /\ cumem.bytes = arg.width * arg.height * RgbBytesPerPixel
       /\ nvp.wdst = arg.width /\ nvp.hdst = arg.height
       /\ nvp.wi = CodedW /\ nvp.hi = CodedH

C4_Witness ==
  /\ RequestOnlyChange /\ Succeeded /\ cur.entry.rgb /\ cur.nfree = 1
  /\ cumem.bytes = 2 * MbSize * MbSize * RgbBytesPerPixel /\ nvp.wi = MbSize

EmptyStream == Ret("NVPIPE_EINVAL", "Input is just stream metadata!")
\* the call before resolved to no picture
NoPictureBefore == {"no picture", "no picture, flag left by a parse error"}
\* the call submitted its packet, no submission failed to parse, and the
\* picture size is still unknown
NoPicture ==
  /\ Returning /\ cur.nsub > 0 /\ size_unknown(nvp)
  /\ ret.site # "parsing video data failed"

\* C5: when two consecutive calls both resolve to no picture, the second
\* returns EmptyStream; and no call submits its packet more than twice
\* while the picture size is unknown.
C5_SecondEmptyCallReturnsEmptyStream ==
  /\ (NoPicture /\ prev \in NoPictureBefore) => ret = EmptyStream
  /\ (NoPicture /\ prev \in NoPictureBefore /\ cur.entry.empty) => cur.nsub = 1
  /\ size_unknown(nvp) => cur.nsub <= 2

C5_Witness ==
  /\ NoPicture /\ prev = "no picture" /\ cur.entry.empty
  /\ ret = EmptyStream /\ cur.nsub = 1

InvalidArgs(a) == a.ibuf_sz = 0 \/ a.width = 0 \/ a.height = 0 \/ a.height % 2 = 1

\* C6: a call with ibuf_sz == 0, a zero width or height or an odd height
\* returns NVPIPE_EINVAL at once: no parser is created, nothing is submitted
\* and the session and the engine are as they were.
C6_InvalidArgumentNoSideEffect ==
  [][(pc = "idle" /\ pc' \in {"parse", "returned"} /\ InvalidArgs(arg'))
       => /\ pc' = "returned" /\ ret'.code = "NVPIPE_EINVAL"
          /\ cur'.nsub = 0
          /\ nvp' = nvp /\ cuvid' = cuvid /\ cumem' = cumem]_vars

C6_Witness ==
  /\ Returning /\ arg.height % 2 = 1 /\ ret.code = "NVPIPE_EINVAL"
  /\ nvp.initialized /\ nvp.rgb /\ cur.nsub = 0

Ran(p) == {p[i] : i \in DOMAIN p}
Unmaps(p) == Count(p, "unmap") + Count(p, "unmap failed")
\* what a call that mapped a picture has to return: the first error, or success
FirstError(p) ==
  IF "convert failed" \in Ran(p) THEN Ret("CUresult", "submit")
  ELSE IF "copy failed" \in Ran(p) THEN Ret("CUresult", "cuMemcpyDtoHAsync")
  ELSE IF "sync failed" \in Ran(p) THEN Ret("CUresult", "sync")
  ELSE Ret("NVPIPE_SUCCESS", "return errcode")

\* C7: a picture that was mapped is unmapped exactly once before the call
\* returns, as the last engine call, also when convert, copy or sync failed;
\* nothing is unmapped when the map failed; the call returns the first error
\* (success when there is none), whether or not the unmap failed.
C7_MappedPictureUnmappedOnce ==
  Returning
    => /\ "map" \in Ran(cur.pipe)
            => /\ cur.pipe[1] = "map" /\ Count(cur.pipe, "map") = 1
               /\ Unmaps(cur.pipe) = 1
               /\ cur.pipe[Len(cur.pipe)] \in {"unmap", "unmap failed"}
               /\ ret = FirstError(cur.pipe)
       /\ "map" \notin Ran(cur.pipe) => Unmaps(cur.pipe) = 0

C7_Witness ==
  /\ Returning
  /\ cur.pipe = <<"map", "convert", "copy", "sync failed", "unmap failed">>
  /\ ret = Ret("CUresult", "sync")

\* C8: a call returns success only after map, convert, copy, sync and unmap,
\* in this order.
C8_SuccessOrder ==
  Succeeded
    => /\ Len(cur.pipe) = 5
       /\ SubSeq(cur.pipe, 1, 4) = <<"map", "convert", "copy", "sync">>
       /\ cur.pipe[5] \in {"unmap", "unmap failed"}

C8_Witness ==
  Succeeded /\ cur.pipe = <<"map", "convert", "copy", "sync", "unmap">>

\* C9: whatever engine call failed, at most one decoder and at most one
\* buffer are live, and dec_initialize is never entered with a decoder handle
\* in the session (its assert(nvp->decoder == NULL) holds).
C9_OneDecoderOneBuffer ==
  /\ cuvid.decoders <= 1
  /\ cumem.live <= 1
  /\ cur.asserted # "nvp->decoder == NULL"

\* C10: between calls the buffer holds wdst*hdst*3 bytes, and there is no
\* buffer exactly when (wdst,hdst) is (0,0).
C10_BufferMatchesOutputSize ==
  pc \in {"idle", "returned"}
    => /\ cumem.bytes = nvp.wdst * nvp.hdst * RgbBytesPerPixel
       /\ ~nvp.rgb <=> (nvp.wdst = 0 /\ nvp.hdst = 0)

\* C11: while a decoder is live, (wi,hi) and (wdst,hdst) are the input and
\* target sizes that decoder was created with.
C11_SizesMatchLiveDecoder ==
  nvp.decoder
    => /\ nvp.wi = cuvid.crt.ulWidth /\ nvp.hi = cuvid.crt.ulHeight
       /\ nvp.wdst = cuvid.crt.ulTargetWidth /\ nvp.hdst = cuvid.crt.ulTargetHeight

\* the values of nvp_err_t a decode call may hand to its caller
Taxonomy == {"NVPIPE_SUCCESS", "NVPIPE_EINVAL", "NVPIPE_EDECODE"}

\* C13: every value decode returns is success or an error of the taxonomy,
\* never a raw result code of the engine.
C13_ReturnsTaxonomyOnly == Returning => ret.code \in Taxonomy

\* C17 as stated: a call returns EmptyStream only if pendingEmptyFlag was set
\* when the call was entered.
C17_EmptyStreamOnlyIfFlagAtEntry ==
  (Returning /\ ret = EmptyStream) => cur.entry.empty

\* C17, amended: a call returns EmptyStream only after a submission that left
\* the size unknown while the flag was set: its first submission when the
\* flag was set at entry, its second when the call itself set the flag on the
\* first one.  A call entered with the flag clear whose first submission
\* parses and leaves the size unknown sets the flag and goes on to resubmit.
C17_EmptyStreamAfterFlaggedSubmission ==
  /\ (Returning /\ ret = EmptyStream)
       => /\ nvp.empty /\ size_unknown(nvp)
          /\ cur.nsub = (IF cur.entry.empty THEN 1 ELSE 2)
  /\ (cur.nsub = 1 /\ ~cur.entry.empty /\ size_unknown(nvp)
        /\ pc # "aborted" /\ ret.site # "parsing video data failed")
       => nvp.empty /\ pc = "parse"

C17_Witness ==
  /\ Returning /\ ret = EmptyStream /\ prev = "none"
  /\ ~cur.entry.empty /\ cur.nsub = 2

\* C18: a call returns success only if dec_ode completed successfully during
\* one of its own submissions.
C18_SuccessOnlyAfterDecodedPicture == Succeeded => cur.reported

\* C19: a call that comes to map holds a live decoder: assert(nvp->decoder)
\* never fails.
C19_DecoderLiveAtMap ==
  /\ pc = "map" => nvp.decoder
  /\ cur.asserted # "nvp->decoder"

\* C20: in a call that comes to convert and copy, the buffer exists and holds
\* requestedWidth*requestedHeight*3 bytes, which is also the number of bytes
\* (wdst*hdst*3) copied out.
C20_BufferFitsRequest ==
  ({"convert", "convert failed"} \cap Ran(cur.pipe) # {})
    => /\ nvp.rgb
       /\ cumem.bytes = arg.width * arg.height * RgbBytesPerPixel
       /\ nvp.wdst * nvp.hdst * RgbBytesPerPixel
            = arg.width * arg.height * RgbBytesPerPixel

\* C12: when the creation of the parser, of a decoder or of the buffer
\* failed, the call in progress returns a set-up error: it does not go on to
\* resubmit, to map or to report success.
C12_SetupFailureIsReturned ==
  cur.setupFailed
    => /\ pc \notin {"parse", "map"}
       /\ Returning => ret.code = "NVPIPE_EDECODE"

\* C14: a call that failed with a decode error (here: its resubmission failed
\* to parse) leaves the session to the next call as if it had not been made.
\* The failed call was entered with pendingEmptyFlag clear, so the next call
\* still has its one tolerated unknown-size resubmission: it does not return
\* EmptyStream after a single submission.
C14_DecodeErrorIsTransient ==
  (Returning /\ prev = "no picture, flag left by a parse error" /\ cur.nsub = 1)
    => ret # EmptyStream

EncodeSites == {"nvp_cuvid_encode", "nvp_cuvid_bitrate"}
\* the step is a call of encode or of the bitrate setter
EncodeStep == pc = "idle" /\ ret'.site \in EncodeSites

\* C15: until the session is closed, the parser is created by a decode call
\* that passed the argument checks, while the session has none; every call
\* that goes on to submit has one; once created it stays, and no second one
\* is created, whatever is resized.
C15_ParserCreatedOnce ==
  [][pc' # "closed" =>
     /\ cuvid'.parsers <= 1
     /\ nvp'.parser <=> cuvid'.parsers = 1
     /\ nvp.parser => nvp'.parser /\ cuvid'.parsers = cuvid.parsers
     /\ cuvid'.parsers # cuvid.parsers
          => pc = "idle" /\ pc' = "parse" /\ ~InvalidArgs(arg')
     /\ pc' = "parse" => nvp'.parser]_vars

C15_Witness ==
  /\ Succeeded /\ prev = "success" /\ cur.nresize = 1 /\ cur.ncreate = 1
  /\ nvp.parser /\ cuvid.parsers = 1

\* C16 as stated: encode and the bitrate setter always return NVPIPE_EINVAL
\* and leave the session as it was.
C16_EncodeReturnsInvalidArgument ==
  [][EncodeStep
       => /\ pc' = "idle" /\ ret'.code = "NVPIPE_EINVAL"
          /\ nvp' = nvp /\ cuvid' = cuvid /\ cumem' = cumem]_vars

\* C16, amended: encode and the bitrate setter leave the session as it was;
\* with assert() compiled out they return NVPIPE_EINVAL, and in a debug build
\* they stop at assert(false) and do not return.
C16_EncodeInvalidArgumentOrAssert ==
  [][EncodeStep
       => /\ nvp' = nvp /\ cuvid' = cuvid /\ cumem' = cumem
          /\ IF ndebug THEN pc' = "idle" /\ ret'.code = "NVPIPE_EINVAL"
                       ELSE pc' = "aborted" /\ cur'.asserted = "false"]_vars

C16_Witness ==
  /\ pc = "idle" /\ ret = Ret("NVPIPE_EINVAL", "nvp_cuvid_encode")
  /\ nvp.initialized /\ nvp.decoder /\ nvp.rgb /\ prev = "success"

====
